---- MODULE Spec2Model ----
(***************************************************************************)
(* Password strength checker (src/main.py).                                *)
(*                                                                         *)
(* A string is a sequence of characters; a character is a one-character    *)
(* string ("A", "7", "!"), or the code point name of a character that is   *)
(* written by name ("U+00C9" is LATIN CAPITAL LETTER E WITH ACUTE,         *)
(* "U+20AC" the euro sign, "U+0060" the grave accent).  Python's None is    *)
(* the empty tuple, a supplied argument x is the one-element tuple <<x>>.  *)
(* A printed line is a tuple whose first element names the line's fixed    *)
(* text and whose other elements are the values formatted into it.  The    *)
(* pictograph that starts each rating text is left out of the rating       *)
(* strings.                                                                *)
(***************************************************************************)
EXTENDS Integers, Sequences, FiniteSets, TLC

VARIABLES
    file,           \* common.txt on disk: [exists, lines]
    pc,             \* interactive_loop: "start", "prompt", "done"; "idle" outside a session
    common_pw,      \* interactive_loop's local common_pw
    loads,          \* number of calls of load_common_passwords so far
    lines,          \* the raw lines input() has returned, in order
    calls,          \* the (password, common_passwords) arguments of each check_password call
    console,        \* the lines printed so far
    interrupted,    \* a KeyboardInterrupt was raised in the session
    traceback,      \* the uncaught exception that ended the process, or "none"
    args,           \* the arguments of a direct call of one of the functions
    called,         \* the function called directly, or "none"
    ret             \* what the direct call returned and printed

vars == <<file, pc, common_pw, loads, lines, calls, console, interrupted, traceback, args, called, ret>>

session_vars == <<pc, common_pw, loads, lines, calls, console, interrupted, traceback>>

(***************************************************************************)
(* Bounds                                                                  *)
(***************************************************************************)
MaxShort == 4       \* every string over Alphabet up to this length is a password
MaxLen == 21        \* the longest generated password
MaxInputs == 3      \* passwords evaluated in one session
MaxOut == 3         \* how far outside 0..8 a score argument may lie

(***************************************************************************)
(* Characters                                                              *)
(***************************************************************************)
UpperSeq ==
    <<"A", "B", "C", "D", "E", "F", "G", "H", "I", "J", "K", "L", "M",
      "N", "O", "P", "Q", "R", "S", "T", "U", "V", "W", "X", "Y", "Z", "U+00C9">>

LowerSeq ==
    <<"a", "b", "c", "d", "e", "f", "g", "h", "i", "j", "k", "l", "m",
      "n", "o", "p", "q", "r", "s", "t", "u", "v", "w", "x", "y", "z", "U+00E9">>

Range(s) == {s[i] : i \in 1..Len(s)}

\* str.isupper / str.islower / str.isdigit of one character
isupper(c) == c \in Range(UpperSeq)

islower(c) == c \in Range(LowerSeq)

isdigit(c) == c \in {"0", "1", "2", "3", "4", "5", "6", "7", "8", "9"}

\* string.punctuation
punctuation ==
    {"!", "\"", "#", "$", "%", "&", "'", "(", ")", "*", "+", ",", "-", ".", "/",
     ":", ";", "<", "=", ">", "?", "@", "[", "\\", "]", "^", "_", "U+0060", "{", "|",
     "}", "~"}

\* str.isspace of one character
isspace(c) == c \in {" ", "\t"}

\* str.lower
lower(s) ==
    [i \in 1..Len(s) |->
        IF isupper(s[i])
        THEN LowerSeq[CHOOSE k \in 1..Len(UpperSeq) : UpperSeq[k] = s[i]]
        ELSE s[i]]

\* str.strip
strip(s) ==
    LET keep == {i \in 1..Len(s) : ~isspace(s[i])}
    IN  IF keep = {} THEN <<>>
        ELSE LET first == CHOOSE i \in keep : \A j \in keep : i <= j
                 last == CHOOSE i \in keep : \A j \in keep : j <= i
             IN  SubSeq(s, first, last)

None == <<>>

Some(x) == <<x>>

(***************************************************************************)
(* load_common_passwords                                                   *)
(***************************************************************************)
load_common_passwords(f) ==
    IF ~f.exists THEN {}
    ELSE {strip(f.lines[i]) : i \in {j \in 1..Len(f.lines) : strip(f.lines[j]) # <<>>}}

(***************************************************************************)
(* Scoring                                                                 *)
(***************************************************************************)
ClassOrder == <<"upper", "lower", "digit", "symbol">>

BoolInt(b) == IF b THEN 1 ELSE 0

character_class_score(password) ==
    LET has_upper == \E i \in 1..Len(password) : isupper(password[i])
        has_lower == \E i \in 1..Len(password) : islower(password[i])
        has_digit == \E i \in 1..Len(password) : isdigit(password[i])
        has_symbol == \E i \in 1..Len(password) : password[i] \in punctuation
        flags == [upper |-> has_upper, lower |-> has_lower,
                  digit |-> has_digit, symbol |-> has_symbol]
        count == BoolInt(flags.upper) + BoolInt(flags.lower)
                 + BoolInt(flags.digit) + BoolInt(flags.symbol)
    IN  [count |-> count, flags |-> flags]

\* one point for every four characters
length_bonus_quarter(password) == Len(password) \div 4

\* thresholds compared with > where the code has >=
length_bonus_strict(password) ==
    LET s1 == IF Len(password) > 8 THEN 1 ELSE 0
        s2 == IF Len(password) > 12 THEN s1 + 1 ELSE s1
        s3 == IF Len(password) > 16 THEN s2 + 1 ELSE s2
        s4 == IF Len(password) > 20 THEN s3 + 1 ELSE s3
    IN  s4

length_bonus(password) ==
    LET s1 == IF Len(password) >= 8 THEN 1 ELSE 0
        s2 == IF Len(password) >= 12 THEN s1 + 1 ELSE s1
        s3 == IF Len(password) >= 16 THEN s2 + 1 ELSE s2
        s4 == IF Len(password) >= 20 THEN s3 + 1 ELSE s3
    IN  s4

\* the length bonus added whatever the class count
check_password_strength_always_bonus(password) ==
    character_class_score(password).count + length_bonus(password)

check_password_strength(password) ==
    LET class_count == character_class_score(password).count
    IN  IF class_count < 4
        THEN class_count
        ELSE class_count + length_bonus(password)

\* "1 <= score < 2" where the code has "1 <= score <= 2"
friendly_strength_message_gap(score, class_flags, length) ==
    IF score = 0 THEN "Too weak"
    ELSE IF 1 <= score /\ score < 2 THEN "Weak"
    ELSE IF score = 3 THEN "Average"
    ELSE IF score = 4 THEN "Not that strong"
    ELSE IF 5 <= score /\ score <= 6 THEN "Strong"
    ELSE IF score >= 7 THEN "Extremely strong"
    ELSE "Unknown"

\* "score <= 0" where the code has "score == 0"
friendly_strength_message_le0(score, class_flags, length) ==
    IF score <= 0 THEN "Too weak"
    ELSE IF 1 <= score /\ score <= 2 THEN "Weak"
    ELSE IF score = 3 THEN "Average"
    ELSE IF score = 4 THEN "Not that strong"
    ELSE IF 5 <= score /\ score <= 6 THEN "Strong"
    ELSE IF score >= 7 THEN "Extremely strong"
    ELSE "Unknown"

friendly_strength_message(score, class_flags, length) ==
    IF score = 0 THEN "Too weak"
    ELSE IF 1 <= score /\ score <= 2 THEN "Weak"
    ELSE IF score = 3 THEN "Average"
    ELSE IF score = 4 THEN "Not that strong"
    ELSE IF 5 <= score /\ score <= 6 THEN "Strong"
    ELSE IF score >= 7 THEN "Extremely strong"
    ELSE "Unknown"

(***************************************************************************)
(* check_password                                                          *)
(***************************************************************************)
\* "if not common_passwords": an empty set counts as not supplied
needs_load_falsy(common_passwords) ==
    \/ common_passwords = None
    \/ common_passwords[1] = {}

\* "if common_passwords is None"
needs_load(common_passwords) == common_passwords = None

\* the password is lowered before it is looked up
is_common_lowered(password, common_passwords) == lower(password) \in common_passwords

\* "password in common_passwords"
is_common(password, common_passwords) == password \in common_passwords

\* "if present" where the code has "if not present"
missing_classes_present(flags) == SelectSeq(ClassOrder, LAMBDA k : flags[k])

\* "missing = [k for k, present in flags.items() if not present]"
missing_classes(flags) == SelectSeq(ClassOrder, LAMBDA k : ~flags[k])

\* "if score <= 5"
needs_length_tip_le(score) == score <= 5

\* "if score < 5"
needs_length_tip(score) == score < 5

\* ret is the returned score, printed the lines it prints, loaded whether it
\* called load_common_passwords
check_password(password, common_passwords, f) ==
    LET loaded == needs_load(common_passwords)
        known == IF loaded THEN load_common_passwords(f) ELSE common_passwords[1]
        cc == character_class_score(password)
        score == check_password_strength(password)
    IN  IF is_common(password, known)
        THEN [ret |-> 0, printed |-> << <<"too_common">> >>, loaded |-> loaded]
        ELSE IF cc.count < 4
        THEN [ret |-> score,
              printed |-> << <<"score_missing", score, missing_classes(cc.flags)>>,
                             <<"tip_classes">> >>,
              loaded |-> loaded]
        ELSE [ret |-> score,
              printed |-> << <<"score_length", score, Len(password)>>,
                             <<"rating", friendly_strength_message(score, None, None)>> >>
                          \o (IF needs_length_tip(score) THEN << <<"tip_longer">> >> ELSE <<>>),
              loaded |-> loaded]

(***************************************************************************)
(* Inputs                                                                  *)
(***************************************************************************)
Alphabet == {"A", "a", "1", "!", " "}

ShortStrings == UNION {[1..n -> Alphabet] : n \in 0..MaxShort}

Cycle(base, n) == [i \in 1..n |-> base[((i - 1) % Len(base)) + 1]]

AllFour == <<"A", "a", "1", "!">>

LongBases ==
    {AllFour, <<"a">>, <<"Z", "z">>, <<"a", "1", "A">>, <<"!", "a", " ", "A", "7">>,
     <<"U+20AC", " ">>, <<"U+00C9", "b", "3", "U+0060">>}

LongStrings == {Cycle(b, n) : b \in LongBases, n \in 0..MaxLen}

s_password == <<"p", "a", "s", "s", "w", "o", "r", "d">>

s_Password == <<"P", "a", "s", "s", "w", "o", "r", "d">>

s_abcdefgh == <<"a", "b", "c", "d", "e", "f", "g", "h">>

s_Abc12345 == <<"A", "b", "c", "1", "2", "3", "4", "5">>

s_Abc123x8 == <<"A", "b", "c", "1", "2", "3", "!", "@">>

s_Abc123x16 ==
    <<"A", "b", "c", "1", "2", "3", "!", "@", "#", "X", "Y", "Z", "7", "8", "9", "0">>

Examples == {<<>>, s_password, s_Password, s_abcdefgh, s_Abc12345, s_Abc123x8, s_Abc123x16}

Passwords == ShortStrings \cup LongStrings \cup Examples

CommonList == {s_password, s_Abc123x8, Cycle(AllFour, 20), <<"a">>, <<"A", "a", "1", "!">>}

CommonArgs == {None, Some({}), Some(CommonList)}

\* common.txt: absent, holding blank lines only, or holding a list with
\* trailing whitespace, blank lines and a duplicate
Files ==
    {[exists |-> FALSE, lines |-> <<>>],
     [exists |-> TRUE, lines |-> << <<>>, <<" ", "\t">> >>],
     [exists |-> TRUE,
      lines |-> <<s_password \o <<" ", " ">>, <<>>, s_Abc123x8, <<" ">>,
                  s_password, <<"\t">> \o Cycle(AllFour, 20), <<"a">>, AllFour>>]}

ExitLines ==
    {<<"e", "x", "i", "t">>, <<"E", "X", "I", "T">>, <<" ", "Q", "u", "i", "t", "\t">>}

PasswordLines ==
    {<<" ", " ">>, <<"e", "x", " ", "i", "t">>, <<"q", "u", "i", "t", "1">>,
     s_password, s_Password \o <<" ">>, <<" ">> \o s_Abc123x8, s_Abc12345,
     Cycle(AllFour, 20), s_Abc123x16, <<"A", "a", " ", "1", "!">>}

InputLines == ExitLines \cup PasswordLines

ScoreArgs == (0 - MaxOut)..(8 + MaxOut)

FlagArgs == {None} \cup {Some(character_class_score(p).flags) : p \in ShortStrings}

LengthArgs == {None} \cup {Some(n) : n \in 0..MaxLen}

(***************************************************************************)
(* interactive_loop                                                        *)
(***************************************************************************)
\* "pwd in ("exit", "quit")": the comparison without lower()
is_exit_command_exact(pwd) == pwd \in {<<"e", "x", "i", "t">>, <<"q", "u", "i", "t">>}

\* "pwd.lower() in ("exit", "quit")"
is_exit_command(pwd) == lower(pwd) \in {<<"e", "x", "i", "t">>, <<"q", "u", "i", "t">>}

Init ==
    /\ file \in Files
    /\ pc = "start"
    /\ common_pw = {}
    /\ loads = 0
    /\ lines = <<>>
    /\ calls = <<>>
    /\ console = <<>>
    /\ interrupted = FALSE
    /\ traceback = "none"
    /\ args = <<>>
    /\ called = "none"
    /\ ret = <<>>

\* line 100: the list is loaded before the loop is entered
Start ==
    /\ pc = "start"
    /\ common_pw' = load_common_passwords(file)
    /\ loads' = loads + 1
    /\ pc' = "prompt"
    /\ UNCHANGED <<file, lines, calls, console, interrupted, traceback, args, called, ret>>

\* one pass of the loop for a line that is a password
ReadPassword(line) ==
    /\ pc = "prompt"
    /\ Len(calls) < MaxInputs
    /\ LET pwd == strip(line)
           r == check_password(pwd, Some(common_pw), file)
       IN  /\ ~is_exit_command(pwd)
           /\ lines' = Append(lines, line)
           /\ calls' = Append(calls, [password |-> pwd, common_passwords |-> Some(common_pw)])
           /\ loads' = loads + BoolInt(r.loaded)
           /\ console' = console \o r.printed \o << <<"separator">> >>
    /\ pc' = "prompt"
    /\ UNCHANGED <<file, common_pw, interrupted, traceback, args, called, ret>>

\* the pass of the loop that reads exit or quit: break
ReadExit(line) ==
    /\ pc = "prompt"
    /\ is_exit_command(strip(line))
    /\ lines' = Append(lines, line)
    /\ pc' = "done"
    /\ UNCHANGED <<file, common_pw, loads, calls, console, interrupted, traceback, args, called, ret>>

\* KeyboardInterrupt while input() waits: the except clause prints the farewell
Interrupt ==
    /\ pc = "prompt"
    /\ interrupted' = TRUE
    /\ console' = Append(console, <<"exiting">>)
    /\ pc' = "done"
    /\ UNCHANGED <<file, common_pw, loads, lines, calls, traceback, args, called, ret>>

\* input() at end of input raises EOFError, which nothing catches
ReadEOF ==
    /\ pc = "prompt"
    /\ traceback' = "EOFError"
    /\ pc' = "done"
    /\ UNCHANGED <<file, common_pw, loads, lines, calls, console, interrupted, args, called, ret>>

Next ==
    \/ Start
    \/ \E line \in InputLines : ReadPassword(line)
    \/ \E line \in InputLines : ReadExit(line)
    \/ Interrupt
    \/ ReadEOF

Spec == Init /\ [][Next]_vars

(***************************************************************************)
(* Direct calls of the scoring functions, for every password               *)
(***************************************************************************)
NoSession ==
    /\ pc = "idle"
    /\ common_pw = {}
    /\ loads = 0
    /\ lines = <<>>
    /\ calls = <<>>
    /\ console = <<>>
    /\ interrupted = FALSE
    /\ traceback = "none"

InitFn ==
    /\ file \in Files
    /\ NoSession
    /\ args \in {[password |-> p] : p \in Passwords}
    /\ called = "none"
    /\ ret = <<>>

CallCharacterClassScore ==
    /\ called = "none"
    /\ called' = "character_class_score"
    /\ ret' = character_class_score(args.password)
    /\ UNCHANGED <<file, args, session_vars>>

CallLengthBonus ==
    /\ called = "none"
    /\ called' = "length_bonus"
    /\ ret' = length_bonus(args.password)
    /\ UNCHANGED <<file, args, session_vars>>

CallCheckPasswordStrength ==
    /\ called = "none"
    /\ called' = "check_password_strength"
    /\ ret' = check_password_strength(args.password)
    /\ UNCHANGED <<file, args, session_vars>>

CallCheckPassword(common_passwords) ==
    /\ called = "none"
    /\ called' = "check_password"
    /\ LET r == check_password(args.password, common_passwords, file)
       IN  /\ ret' = [common_passwords |-> common_passwords,
                      score |-> r.ret, printed |-> r.printed]
           /\ loads' = loads + BoolInt(r.loaded)
    /\ UNCHANGED <<file, args, pc, common_pw, lines, calls, console, interrupted, traceback>>

NextFn ==
    \/ CallCharacterClassScore
    \/ CallLengthBonus
    \/ CallCheckPasswordStrength
    \/ \E common_passwords \in CommonArgs : CallCheckPassword(common_passwords)

SpecFn == InitFn /\ [][NextFn]_vars

(***************************************************************************)
(* Direct calls of friendly_strength_message, for every score              *)
(***************************************************************************)
InitMsg ==
    /\ file \in Files
    /\ NoSession
    /\ args \in [score : ScoreArgs, class_flags : FlagArgs, length : LengthArgs]
    /\ called = "none"
    /\ ret = <<>>

CallFriendlyStrengthMessage ==
    /\ called = "none"
    /\ called' = "friendly_strength_message"
    /\ ret' = friendly_strength_message(args.score, args.class_flags, args.length)
    /\ UNCHANGED <<file, args, session_vars>>

NextMsg == CallFriendlyStrengthMessage

SpecMsg == InitMsg /\ [][NextMsg]_vars

(***************************************************************************)
(* Properties                                                              *)
(***************************************************************************)
\* the character classes a string contains, from the class definitions
HasClass(p, k) ==
    \E i \in 1..Len(p) :
        \/ k = "upper" /\ p[i] \in Range(UpperSeq)
        \/ k = "lower" /\ p[i] \in Range(LowerSeq)
        \/ k = "digit" /\ p[i] \in {"0", "1", "2", "3", "4", "5", "6", "7", "8", "9"}
        \/ k = "symbol" /\ p[i] \in punctuation

ClassCount(p) == Cardinality({k \in {"upper", "lower", "digit", "symbol"} : HasClass(p, k)})

ThresholdsMet(n) == Cardinality({t \in {8, 12, 16, 20} : n >= t})

\* the set a check_password call looks the password up in
KnownTo(common_passwords) ==
    IF common_passwords = None THEN load_common_passwords(file) ELSE common_passwords[1]

CalledCheckPassword == called = "check_password"

IsCommonCall == CalledCheckPassword /\ args.password \in KnownTo(ret.common_passwords)

NotCommonCall == CalledCheckPassword /\ args.password \notin KnownTo(ret.common_passwords)

\* C1: the score check_password_strength returns and the score check_password
\* returns, for every password and every common-password set, is an integer
\* in 0..8.
C1_ScoreInRange ==
    /\ called = "check_password_strength" => ret \in 0..8
    /\ CalledCheckPassword => ret.score \in 0..8

C1_Witness ==
    \/ called = "check_password_strength" /\ ret = 8
    \/ CalledCheckPassword /\ ret.score = 8 /\ ret.common_passwords = Some(CommonList)

\* C2: a password that is a member of the common-password set gets score 0
\* from check_password whatever its classes and length, and the only line
\* printed is the too-common notice: no missing-class list, no rating.
C2_CommonForcesZero ==
    IsCommonCall => ret.score = 0 /\ ret.printed = << <<"too_common">> >>

C2_Witness ==
    /\ IsCommonCall
    /\ args.password = Cycle(AllFour, 20)
    /\ ClassCount(args.password) = 4
    /\ ret.score = 0

\* C3: a password with fewer than four classes scores exactly its class
\* count, whatever its length.
C3_IncompleteClassesScore ==
    /\ called = "check_password_strength" /\ ClassCount(args.password) < 4
           => ret = ClassCount(args.password)
    /\ NotCommonCall /\ ClassCount(args.password) < 4
           => ret.score = ClassCount(args.password)

C3_Witness ==
    /\ called = "check_password_strength"
    /\ Len(args.password) >= 20
    /\ ClassCount(args.password) = 1
    /\ ret = 1

\* C4: a password with all four classes scores 4 plus the length bonus; the
\* length bonus is the number of thresholds among 8, 12, 16, 20 that the
\* length reaches, lies in 0..4, and is never less than the bonus of a
\* shorter password.
C4_FullClassesScore ==
    /\ called = "check_password_strength" /\ ClassCount(args.password) = 4
           => ret = 4 + ThresholdsMet(Len(args.password))
    /\ called = "length_bonus"
           => /\ ret = ThresholdsMet(Len(args.password))
              /\ ret \in 0..4
              /\ \A n \in 0..Len(args.password) : length_bonus(Cycle(<<"a">>, n)) <= ret

C4_Witness ==
    /\ called = "check_password_strength"
    /\ args.password = s_Abc123x16
    /\ ret = 7

RatingOf(score) ==
    CASE score = 0 -> "Too weak"
      [] score \in 1..2 -> "Weak"
      [] score = 3 -> "Average"
      [] score = 4 -> "Not that strong"
      [] score \in 5..6 -> "Strong"
      [] score \in 7..8 -> "Extremely strong"

RatingOrder ==
    <<"Too weak", "Weak", "Average", "Not that strong", "Strong", "Extremely strong">>

Rank(rating) == CHOOSE k \in 1..Len(RatingOrder) : RatingOrder[k] = rating

CalledMessage == called = "friendly_strength_message"

\* C5: for a score in 0..8 friendly_strength_message returns the rating of the
\* table, whatever class_flags and length are, and the rating of a score
\* never ranks below the rating of the score before it.
C5_RatingTable ==
    CalledMessage /\ args.score \in 0..8
        => /\ ret = RatingOf(args.score)
           /\ args.score > 0
                => Rank(friendly_strength_message(args.score - 1, None, None)) <= Rank(ret)

C5_Witness ==
    /\ CalledMessage
    /\ args.score = 6
    /\ args.class_flags # None
    /\ args.length = Some(0)
    /\ ret = "Strong"

\* C6, as claimed: every integer score outside 0..8, below 0 or above 8, is
\* rated "Unknown".
C6_OutsideRangeUnknown ==
    CalledMessage /\ args.score \notin 0..8 => ret = "Unknown"

\* C6, amended: a score below 0 is rated "Unknown" and a score above 8 is
\* rated "Extremely strong".
C6_OutsideRange ==
    /\ CalledMessage /\ args.score < 0 => ret = "Unknown"
    /\ CalledMessage /\ args.score > 8 => ret = "Extremely strong"

C6_Witness ==
    /\ CalledMessage
    /\ args.score = 9
    /\ ret = "Extremely strong"

MissingOf(p) == SelectSeq(<<"upper", "lower", "digit", "symbol">>, LAMBDA k : ~HasClass(p, k))

\* C7: for a password that is not common and has fewer than four classes,
\* check_password returns the class count and prints the score with the names
\* of the classes the password lacks, in the order upper, lower, digit,
\* symbol, then the tip to use all four classes, and no rating; the empty
\* string lacks all four and scores 0.
C7_MissingClasses ==
    /\ NotCommonCall /\ ClassCount(args.password) < 4
           => /\ ret.score = ClassCount(args.password)
              /\ ret.printed = << <<"score_missing", ret.score, MissingOf(args.password)>>,
                                  <<"tip_classes">> >>
    /\ NotCommonCall /\ args.password = <<>>
           => /\ ret.score = 0
              /\ ret.printed[1][3] = <<"upper", "lower", "digit", "symbol">>

C7_Witness ==
    /\ NotCommonCall
    /\ args.password = s_Abc12345
    /\ ret.printed[1] = <<"score_missing", 3, <<"symbol">> >>

\* C8: in a session the list is loaded once, before the first prompt, however
\* many passwords are evaluated and also when the loaded set is empty; every
\* check_password call gets that set and loads nothing.
C8_LoadedOnce ==
    /\ loads = (IF pc = "start" THEN 0 ELSE 1)
    /\ pc = "start" => lines = <<>> /\ calls = <<>>
    /\ pc # "start" => common_pw = load_common_passwords(file)
    /\ \A i \in 1..Len(calls) : calls[i].common_passwords = Some(common_pw)

C8_Witness ==
    /\ Len(calls) = MaxInputs
    /\ common_pw = {}
    /\ loads = 1

IsExitLine(line) == lower(strip(line)) \in {<<"e", "x", "i", "t">>, <<"q", "u", "i", "t">>}

Last(s) == s[Len(s)]

C9_WitnessInterrupt ==
    /\ interrupted
    /\ Len(calls) >= 1

RatingLines(printed) == {i \in 1..Len(printed) : printed[i][1] = "rating"}

\* C10: a check_password call that reaches the all-four-classes branch has a
\* score in 4..8; the only ratings check_password ever prints are "Not that
\* strong", "Strong" and "Extremely strong"; the tip to make the password
\* longer is printed exactly when the password is shorter than 8 characters.
C10_FullClassesBranch ==
    /\ CalledCheckPassword
           => \A i \in RatingLines(ret.printed) :
                  ret.printed[i][2] \in {"Not that strong", "Strong", "Extremely strong"}
    /\ NotCommonCall /\ ClassCount(args.password) = 4
           => /\ ret.score \in 4..8
              /\ RatingLines(ret.printed) = {2}
              /\ ret.printed[1] = <<"score_length", ret.score, Len(args.password)>>
              /\ (\E i \in 1..Len(ret.printed) : ret.printed[i] = <<"tip_longer">>)
                     <=> Len(args.password) < 8
              /\ Len(args.password) < 8 <=> ret.score = 4

C10_Witness ==
    /\ NotCommonCall
    /\ ClassCount(args.password) = 4
    /\ Len(args.password) \in 8..11
    /\ Len(ret.printed) = 2

====
